---- MODULE Spec2Model ----
(***************************************************************************)
(* Model of src/main.py (Pygot/Pinky): the ChatApp controller that polls a *)
(* live chat, extracts candidate usernames, validates them on a thread     *)
(* pool and pauses on every accepted participant.                          *)
(*                                                                         *)
(* All handlers (button slots, the QTimer timeout, the queued `finished`   *)
(* signal of a validator) run on the Qt main thread, one at a time; each   *)
(* is one atomic action here.  Python strings are sequences of             *)
(* one-character strings.                                                  *)
(***************************************************************************)
EXTENDS Naturals, Sequences, FiniteSets, TLC

VARIABLES
    config,               \* self.config: [video_id, cmd_prefix]
    chat,                 \* self.chat: "None", an attached "LiveChat", or an
                          \* "EndedChat" whose stream has ended
    participants,         \* self.participants
    running,              \* self.running
    paused,               \* self.paused
    pending_validations,  \* self.pending_validations
    threadpool,           \* validators started and not yet delivered, in start order
    chat_timer,           \* self.chat_timer.isActive()
    start_button,         \* self.start_button.isEnabled()
    stop_button,          \* self.stop_button.isEnabled()
    next_button,          \* self.next_button.isEnabled()
    username_display,     \* lines appended to self.username_display
    statusBar,            \* message currently shown by self.statusBar()
    last_call,            \* the handler that ran last, with its arguments
    stale                 \* how many validators at the head of threadpool were
                          \* started before the latest stop_chat

vars ==
    <<config, chat, participants, running, paused, pending_validations,
      threadpool, chat_timer, start_button, stop_button, next_button,
      username_display, statusBar, last_call, stale>>

-----------------------------------------------------------------------------
(* Bounds of the model *)

\* most messages one chat.get() returns
MaxBatch == 2

\* most validators in the thread pool at once
MaxInFlight == 2

-----------------------------------------------------------------------------
(* Strings *)

\* str.lower() on one character
LowerChar(c) ==
    IF c = "A" THEN "a" ELSE IF c = "B" THEN "b" ELSE c

\* str.lower()
Lower(s) ==
    [i \in 1..Len(s) |-> LowerChar(s[i])]

\* str.replace(' ', ''): only the space character is removed
RemoveSpaces(s) ==
    SelectSeq(s, LAMBDA c : c # " ")

\* str(item.message).lower().replace(' ', '')
Normalize(raw) ==
    RemoveSpaces(Lower(raw))

\* str.startswith(prefix); the empty prefix matches everything
StartsWith(s, prefix) ==
    /\ Len(prefix) <= Len(s)
    /\ SubSeq(s, 1, Len(prefix)) = prefix

RECURSIVE ReplaceAll(_, _)
\* str.replace(old, ''): every non-overlapping occurrence of old, left to
\* right, is removed; with old = '' the string is returned as it is
ReplaceAll(s, old) ==
    IF old = <<>> \/ Len(s) < Len(old) THEN s
    ELSE IF StartsWith(s, old)
         THEN ReplaceAll(SubSeq(s, Len(old) + 1, Len(s)), old)
         ELSE <<Head(s)>> \o ReplaceAll(Tail(s), old)

IsSpace(c) ==
    c \in {" ", "\t"}

RECURSIVE LStrip(_)
LStrip(s) ==
    IF s # <<>> /\ IsSpace(Head(s)) THEN LStrip(Tail(s)) ELSE s

RECURSIVE RStrip(_)
RStrip(s) ==
    IF s # <<>> /\ IsSpace(s[Len(s)]) THEN RStrip(SubSeq(s, 1, Len(s) - 1)) ELSE s

\* str.strip()
Strip(s) ==
    RStrip(LStrip(s))

\* n copies of the character c
Rep(c, n) ==
    [i \in 1..n |-> c]

-----------------------------------------------------------------------------
(* Configuration and inputs *)

DEFAULT_CONFIG ==
    [video_id |-> <<"1MkMVdZXxWE">>, cmd_prefix |-> <<>>]

\* texts the operator may have typed in cmd_prefix_input when saving
PrefixInputs ==
    { <<>>, <<"!">>, <<"!", " ">> }

\* texts the operator may have typed in video_id_input when saving
VideoIdInputs ==
    { <<"1MkMVdZXxWE">> }

\* the bounds of the length test of _poll_chat
MIN_MESSAGE_LEN == 2
MAX_MESSAGE_LEN == 20

\* raw chat messages the source may deliver
Messages ==
    { <<"A", " ", "b">>, <<"!", "a">>, <<"a">>, Rep("a", MAX_MESSAGE_LEN + 1) }

RECURSIVE SeqsUpTo(_, _)
\* all sequences over S of length at most n
SeqsUpTo(S, n) ==
    IF n = 0 THEN { <<>> }
    ELSE LET shorter == SeqsUpTo(S, n - 1)
         IN  shorter \cup { Append(q, x) : q \in shorter, x \in S }

\* what chat.get().items may hold at one tick
Batches ==
    SeqsUpTo(Messages, MaxBatch)

Range(s) ==
    { s[i] : i \in 1..Len(s) }

\* a status bar message: its fixed text and the value formatted into it
Status(text, arg) ==
    [text |-> text, arg |-> arg]

\* a record of the handler that ran
Call(op, outcome, is_valid, username) ==
    [op |-> op, outcome |-> outcome, is_valid |-> is_valid, username |-> username]

-----------------------------------------------------------------------------
(* ChatApp.__init__ *)

\* what _load_config may return: the defaults, or a record saved earlier
LoadedConfigs ==
    { DEFAULT_CONFIG } \cup
    { [video_id |-> Strip(v), cmd_prefix |-> Strip(p)] :
        v \in VideoIdInputs, p \in PrefixInputs }

Init ==
    /\ config \in LoadedConfigs
    /\ chat = "None"
    /\ participants = {}
    /\ running = FALSE
    /\ paused = FALSE
    /\ pending_validations = {}
    /\ threadpool = <<>>
    /\ chat_timer = FALSE
    /\ start_button = TRUE
    /\ stop_button = FALSE
    /\ next_button = FALSE
    /\ username_display = <<>>
    /\ statusBar = Status("Ready", <<>>)
    /\ last_call = Call("__init__", "", FALSE, <<>>)
    /\ stale = 0

-----------------------------------------------------------------------------
(* ChatApp._save_config: the Save Configuration button *)

_save_config ==
    \E video_id_input \in VideoIdInputs, cmd_prefix_input \in PrefixInputs,
       written \in BOOLEAN :
        LET new_config == [video_id   |-> Strip(video_id_input),
                           cmd_prefix |-> Strip(cmd_prefix_input)]
        IN  /\ config' = IF written THEN new_config ELSE config
            /\ statusBar' = IF written
                            THEN Status("Configuration saved", <<>>)
                            ELSE Status("Error saving configuration", <<>>)
            /\ last_call' = Call("_save_config",
                                 IF written THEN "saved" ELSE "failed",
                                 FALSE, <<>>)
            /\ UNCHANGED <<chat, participants, running, paused,
                           pending_validations, threadpool, chat_timer,
                           start_button, stop_button, next_button,
                           username_display, stale>>

-----------------------------------------------------------------------------
(* ChatApp.start_chat: the Start Listening button *)

\* a start_chat that forgets to reset self.paused
PausedAfterStart_Kept ==
    paused

\* start_chat assigns self.paused = False
PausedAfterStart ==
    FALSE

\* a start_chat that also clears self.participants
ParticipantsAfterStart_Cleared ==
    {}

\* start_chat has no statement on self.participants: the set is kept
ParticipantsAfterStart ==
    participants

start_chat ==
    /\ start_button
    /\ \E created \in BOOLEAN :
        IF created
        THEN /\ chat' = "LiveChat"
             /\ running' = TRUE
             /\ paused' = PausedAfterStart
             /\ pending_validations' = {}
             /\ participants' = ParticipantsAfterStart
             /\ chat_timer' = TRUE
             /\ statusBar' = Status("Connected to video: ", config.video_id)
             /\ start_button' = FALSE
             /\ stop_button' = TRUE
             /\ next_button' = TRUE
             /\ last_call' = Call("start_chat", "connected", FALSE, <<>>)
             /\ UNCHANGED <<config, threadpool, username_display, stale>>
        ELSE \* pytchat.create raised
             /\ statusBar' = Status("Connection failed", <<>>)
             /\ last_call' = Call("start_chat", "failed", FALSE, <<>>)
             /\ UNCHANGED <<config, chat, participants, running, paused,
                            pending_validations, threadpool, chat_timer,
                            start_button, stop_button, next_button,
                            username_display, stale>>

-----------------------------------------------------------------------------
(* ChatApp.stop_chat: the Stop Listening button, and the call from _poll_chat *)

\* a stop_chat that forgets self.pending_validations.clear()
PendingAfterStop_Kept ==
    pending_validations

\* self.pending_validations.clear()
PendingAfterStop ==
    {}

\* a stop_chat that forgets self.chat_timer.stop()
StopChat_TimerKept ==
    /\ running' = FALSE
    /\ chat_timer' = chat_timer
    /\ pending_validations' = PendingAfterStop
    /\ statusBar' = Status("Stopped", <<>>)
    /\ start_button' = TRUE
    /\ stop_button' = FALSE
    /\ next_button' = FALSE
    /\ stale' = Len(threadpool)

\* the assignments of stop_chat; every validator still in the pool was
\* started before this stop
StopChat ==
    /\ running' = FALSE
    /\ chat_timer' = FALSE
    /\ pending_validations' = PendingAfterStop
    /\ statusBar' = Status("Stopped", <<>>)
    /\ start_button' = TRUE
    /\ stop_button' = FALSE
    /\ next_button' = FALSE
    /\ stale' = Len(threadpool)

stop_chat ==
    /\ stop_button
    /\ StopChat
    /\ last_call' = Call("stop_chat", "", FALSE, <<>>)
    /\ UNCHANGED <<config, chat, participants, paused, threadpool,
                   username_display>>

-----------------------------------------------------------------------------
(* ChatApp.next_username: the Next Username button *)

\* a next_username that leaves self.paused as it is
PausedAfterNext_Kept ==
    paused

\* next_username assigns self.paused = False
PausedAfterNext ==
    FALSE

next_username ==
    /\ next_button
    /\ paused' = PausedAfterNext
    /\ statusBar' = Status("Waiting for next username...", <<>>)
    /\ last_call' = Call("next_username", IF paused THEN "paused" ELSE "running",
                         FALSE, <<>>)
    /\ UNCHANGED <<config, chat, participants, running, pending_validations,
                   threadpool, chat_timer, start_button, stop_button,
                   next_button, username_display, stale>>

-----------------------------------------------------------------------------
(* ChatApp._handle_validation_result: the slot of a validator's `finished` *)
(* signal.  UsernameValidator.run always ends by emitting the signal once, *)
(* with a verdict the lookup service decides; the pool runs validators in  *)
(* parallel, so any validator in the pool may be the next to deliver.      *)

\* a handler that forgets to discard the username
PendingAfterResult_Kept(pend, username) ==
    pend

\* self.pending_validations.discard(username)
PendingAfterResult(pend, username) ==
    pend \ {username}

\* a handler without the `if not self.running: return` guard
ResultDiscarded_Never(run) ==
    FALSE

\* `if not self.running: return`
ResultDiscarded(run) ==
    ~run

\* a handler that accepts on the verdict alone
IsNewParticipant_VerdictOnly(is_valid, username, parts) ==
    is_valid

\* `if is_valid and username not in self.participants`
IsNewParticipant(is_valid, username, parts) ==
    is_valid /\ username \notin parts

\* an accepting branch that leaves self.paused as it is
PausedAfterAccept_Kept ==
    paused

\* the accepting branch assigns self.paused = True
PausedAfterAccept ==
    TRUE

\* the sequence s without its i-th element
RemoveAt(s, i) ==
    SubSeq(s, 1, i - 1) \o SubSeq(s, i + 1, Len(s))

\* the i-th validator of the pool emits finished(is_valid, username)
HandleValidationResult(i, is_valid) ==
        LET username == threadpool[i]
        IN  /\ threadpool' = RemoveAt(threadpool, i)
            /\ stale' = IF i <= stale THEN stale - 1 ELSE stale
            /\ pending_validations' = PendingAfterResult(pending_validations, username)
            /\ IF ResultDiscarded(running)
               THEN /\ last_call' = Call("_handle_validation_result", "discarded",
                                         is_valid, username)
                    /\ UNCHANGED <<participants, paused, username_display, statusBar>>
               ELSE IF IsNewParticipant(is_valid, username, participants)
               THEN /\ participants' = participants \cup {username}
                    /\ username_display' = Append(username_display, username)
                    /\ statusBar' = Status("Valid username (Click next): ", username)
                    /\ paused' = PausedAfterAccept
                    /\ last_call' = Call("_handle_validation_result", "accepted",
                                         is_valid, username)
               ELSE /\ statusBar' = Status("Invalid username: ", username)
                    /\ last_call' = Call("_handle_validation_result", "rejected",
                                         is_valid, username)
                    /\ UNCHANGED <<participants, paused, username_display>>
            /\ UNCHANGED <<config, chat, running, chat_timer, start_button,
                           stop_button, next_button>>

_handle_validation_result ==
    \E i \in 1..Len(threadpool), is_valid \in BOOLEAN :
        HandleValidationResult(i, is_valid)

-----------------------------------------------------------------------------
(* ChatApp._poll_chat: the slot of chat_timer.timeout *)

\* `message.startswith(prefix) and 2 <= len(message) <= 20`
IsCandidateMessage(message, prefix) ==
    /\ StartsWith(message, prefix)
    /\ MIN_MESSAGE_LEN <= Len(message)
    /\ Len(message) <= MAX_MESSAGE_LEN

\* `username = message.replace(prefix, '')`
ExtractUsername(message, prefix) ==
    ReplaceAll(message, prefix)

\* a duplicate test that forgets the accepted set
IsNewUsername_PendingOnly(username, parts, pend) ==
    username \notin pend

\* a duplicate test that forgets the pending set
IsNewUsername_ParticipantsOnly(username, parts, pend) ==
    username \notin parts

\* `username not in self.participants and username not in self.pending_validations`
IsNewUsername(username, parts, pend) ==
    username \notin parts /\ username \notin pend

RECURSIVE PollItems_NoReturn(_, _, _, _, _)
\* a loop that goes on through the batch after starting a validation
PollItems_NoReturn(items, prefix, run, parts, pend) ==
    IF items = <<>> \/ ~run THEN <<>>
    ELSE LET message  == Normalize(Head(items))
             username == ExtractUsername(message, prefix)
         IN  IF /\ IsCandidateMessage(message, prefix)
                /\ username \notin parts /\ username \notin pend
             THEN <<username>> \o
                  PollItems_NoReturn(Tail(items), prefix, run, parts,
                                     pend \cup {username})
             ELSE PollItems_NoReturn(Tail(items), prefix, run, parts, pend)

RECURSIVE PollItems_ReturnsOnDuplicate(_, _, _, _, _)
\* a loop whose `return` follows the first candidate, new or not
PollItems_ReturnsOnDuplicate(items, prefix, run, parts, pend) ==
    IF items = <<>> \/ ~run THEN <<>>
    ELSE LET message  == Normalize(Head(items))
             username == ExtractUsername(message, prefix)
         IN  IF IsCandidateMessage(message, prefix)
             THEN IF username \notin parts /\ username \notin pend
                  THEN <<username>>
                  ELSE <<>>
             ELSE PollItems_ReturnsOnDuplicate(Tail(items), prefix, run, parts, pend)

RECURSIVE PollItems(_, _, _, _, _)
\* the `for item in ...items` loop: the usernames it hands to
\* _validate_username_async, in order.  The loop returns at the first one.
PollItems(items, prefix, run, parts, pend) ==
    IF items = <<>> \/ ~run THEN <<>>
    ELSE LET message  == Normalize(Head(items))
             username == ExtractUsername(message, prefix)
         IN  IF /\ IsCandidateMessage(message, prefix)
                /\ IsNewUsername(username, parts, pend)
             THEN <<username>>
             ELSE PollItems(Tail(items), prefix, run, parts, pend)

\* a tick that tests only self.running
PollSkipped_RunningOnly(run, pause) ==
    ~run

\* `if not self.running or self.paused: return`
PollSkipped(run, pause) ==
    ~run \/ pause

\* a tick that matches against the default prefix, not the saved one
PollPrefix_Default(cfg) ==
    DEFAULT_CONFIG.cmd_prefix

\* `prefix = self.config.get('cmd_prefix', '')`
PollPrefix(cfg) ==
    cfg.cmd_prefix

\* one timeout of chat_timer, when chat.get().items is one of batches
PollChat(batches) ==
    /\ chat_timer
    /\ IF PollSkipped(running, paused)
       THEN /\ last_call' = Call("_poll_chat", "skipped", FALSE, <<>>)
            /\ UNCHANGED <<config, chat, participants, running, paused,
                           pending_validations, threadpool, chat_timer,
                           start_button, stop_button, next_button,
                           username_display, statusBar, stale>>
       ELSE \/ \* chat.is_alive() is false: the stream has ended and the
               \* LiveChat object has terminated itself; "Chat ended", then
               \* stop_chat()
               /\ chat' = "EndedChat"
               /\ StopChat
               /\ last_call' = Call("_poll_chat", "ended", FALSE, <<>>)
               /\ UNCHANGED <<config, participants, paused, threadpool,
                              username_display>>
            \/ \* is_alive(), get() or the iteration raised: stop_chat()
               /\ StopChat
               /\ last_call' = Call("_poll_chat", "error", FALSE, <<>>)
               /\ UNCHANGED <<config, chat, participants, paused, threadpool,
                              username_display>>
            \/ \E items \in batches :
                LET prefix   == PollPrefix(config)
                    started  == PollItems(items, prefix, running, participants,
                                          pending_validations)
                IN  /\ Len(threadpool) + Len(started) <= MaxInFlight
                    \* _validate_username_async
                    /\ pending_validations' = pending_validations \cup Range(started)
                    /\ threadpool' = threadpool \o started
                    /\ last_call' = IF started = <<>>
                                    THEN Call("_poll_chat", "none", FALSE, <<>>)
                                    ELSE Call("_poll_chat", "dispatched", FALSE,
                                              started[Len(started)])
                    /\ UNCHANGED <<config, chat, participants, running, paused,
                                   chat_timer, start_button, stop_button,
                                   next_button, username_display, statusBar,
                                   stale>>

_poll_chat ==
    PollChat(Batches)

-----------------------------------------------------------------------------
Next ==
    \/ _save_config
    \/ start_chat
    \/ stop_chat
    \/ next_username
    \/ _handle_validation_result
    \/ _poll_chat

Spec ==
    Init /\ [][Next]_vars

\* every username a tick can extract from a message of the chat
Usernames ==
    {ExtractUsername(Normalize(m), p) : m \in Messages, p \in PrefixInputs}

\* a validator of username u delivers its result
ResultOf(u) ==
    \E i \in 1..Len(threadpool), is_valid \in BOOLEAN :
        /\ threadpool[i] = u
        /\ HandleValidationResult(i, is_valid)

\* UsernameValidator.run ends within its request's timeout by emitting
\* `finished`, and the event loop runs the queued slot: a validator in the
\* pool does not stay there forever.
FairSpec ==
    Spec /\ \A u \in Usernames : WF_vars(ResultOf(u))

-----------------------------------------------------------------------------
(* The extraction of usernames on a wide range of messages: sessions whose  *)
(* chat delivers one message per tick, any text over ExtractAlphabet, and   *)
(* whose validators have not delivered yet.                                 *)

\* longest raw message of ExtractMessages
MaxMsgLen == 3

ExtractAlphabet ==
    { "!", "a", "A", " " }

\* every short text, and texts at the upper bound of the length test
ExtractMessages ==
    SeqsUpTo(ExtractAlphabet, MaxMsgLen) \cup
    { Rep("a", MAX_MESSAGE_LEN), <<"!">> \o Rep("a", MAX_MESSAGE_LEN) }

ExtractBatches ==
    { <<m>> : m \in ExtractMessages }

_poll_chat_one ==
    PollChat(ExtractBatches)

NextExtract ==
    \/ start_chat
    \/ stop_chat
    \/ _poll_chat_one

SpecExtract ==
    Init /\ [][NextExtract]_vars

-----------------------------------------------------------------------------
(* Properties *)

\* the session state the flags running and paused encode
Session ==
    IF ~running THEN "Stopped" ELSE IF paused THEN "Paused" ELSE "Running"

\* the step just taken was the handler op
Ran(op) ==
    last_call'.op = op

\* the step just taken was a tick that started the validation of a username
Dispatched ==
    Ran("_poll_chat") /\ last_call'.outcome = "dispatched"

\* the step just taken delivered a validation result
Resolved ==
    Ran("_handle_validation_result")

NoDuplicates(s) ==
    \A i, j \in 1..Len(s) : s[i] = s[j] => i = j

\* C1: participants and pending_validations are disjoint in every reachable
\* state; only a tick adds to pending_validations, and what it adds was in
\* neither set when the tick ran.
C1_RegistryDisjoint ==
    /\ [](participants \cap pending_validations = {})
    /\ [][\A id \in pending_validations' \ pending_validations :
            /\ Dispatched
            /\ last_call'.username = id
            /\ id \notin participants
            /\ id \notin pending_validations]_vars

\* C1 witness: a tick has started a validation while other identifiers are
\* already accepted.
C1_Witness ==
    /\ last_call.op = "_poll_chat"
    /\ last_call.outcome = "dispatched"
    /\ last_call.username \in pending_validations
    /\ participants # {}

\* C2: the session state changes only Stopped->Running by start_chat,
\* Running->Paused by an accepted validation result, Paused->Running by
\* next_username, and Running/Paused->Stopped by stop_chat or by a tick that
\* found the chat ended or raised.
C2_SessionTransitions ==
    [][Session' # Session =>
        \/ /\ Session = "Stopped" /\ Session' = "Running"
           /\ Ran("start_chat")
        \/ /\ Session = "Running" /\ Session' = "Paused"
           /\ Resolved /\ last_call'.outcome = "accepted"
        \/ /\ Session = "Paused" /\ Session' = "Running"
           /\ Ran("next_username")
        \/ /\ Session \in {"Running", "Paused"} /\ Session' = "Stopped"
           /\ \/ Ran("stop_chat")
              \/ Ran("_poll_chat") /\ last_call'.outcome \in {"ended", "error"}
      ]_vars

\* C2 witness: a session has been started after an earlier one accepted a
\* participant (and so went through Paused and Stopped).
C2_Witness ==
    /\ last_call.op = "start_chat"
    /\ last_call.outcome = "connected"
    /\ Session = "Running"
    /\ participants # {}

\* C3 as stated: never more than one validation in flight, so never more
\* than one identifier pending.
C3_AtMostOneInFlight ==
    /\ Len(threadpool) <= 1
    /\ Cardinality(pending_validations) <= 1

\* C3 amended: one tick starts at most one validation (the pool and the
\* pending set grow by at most one per step, and only by a tick), while
\* validations of earlier ticks may still be in flight.
C3_OneDispatchPerTick ==
    [][/\ Len(threadpool') <= Len(threadpool) + 1
       /\ Cardinality(pending_validations') <= Cardinality(pending_validations) + 1
       /\ Len(threadpool') > Len(threadpool) => Dispatched
      ]_vars

\* C3 witness: two validations in flight, both identifiers pending.
C3_Witness ==
    /\ Len(threadpool) = 2
    /\ Cardinality(pending_validations) = 2

\* C4: a tick starts the validation of an identifier only if it is not
\* pending, and a pending identifier stays pending until a result for it is
\* handled or the session ends; so within a session an identifier is not
\* dispatched twice without a result for it in between.
C4_NoRedispatchWhilePending ==
    [][/\ Dispatched => last_call'.username \notin pending_validations
       /\ \A id \in pending_validations \ pending_validations' :
            \/ Resolved /\ last_call'.username = id
            \/ Session' = "Stopped"
      ]_vars

\* C4 witness: a running tick started nothing although the chat can deliver
\* a message whose username is pending.
C4_Witness ==
    /\ last_call.op = "_poll_chat"
    /\ last_call.outcome = "none"
    /\ \E m \in Messages :
        /\ IsCandidateMessage(Normalize(m), config.cmd_prefix)
        /\ ExtractUsername(Normalize(m), config.cmd_prefix) \in pending_validations

\* C5: a result with verdict true for a username not yet accepted, handled
\* while running, adds the username to participants, removes it from pending,
\* appends it once to the display and leaves the session Paused.
C5_AcceptNewParticipant ==
    [][(/\ Resolved
        /\ last_call'.is_valid
        /\ last_call'.username \notin participants
        /\ running)
       => /\ participants' = participants \cup {last_call'.username}
          /\ last_call'.username \notin pending_validations'
          /\ username_display' = Append(username_display, last_call'.username)
          /\ Session' = "Paused"
      ]_vars

\* C5 witness: a result has just been accepted.
C5_Witness ==
    /\ last_call.op = "_handle_validation_result"
    /\ last_call.outcome = "accepted"
    /\ last_call.username \in participants
    /\ Session = "Paused"

\* C6: a result with verdict true for a username already accepted appends
\* nothing to the display, leaves participants and the session state as they
\* are; no username is ever displayed twice.
C6_NoDoubleReport ==
    /\ [](NoDuplicates(username_display))
    /\ [][(/\ Resolved
           /\ last_call'.is_valid
           /\ last_call'.username \in participants)
          => /\ username_display' = username_display
             /\ participants' = participants
             /\ Session' = Session
         ]_vars

\* C6 witness: a running session has rejected a result with verdict true,
\* which only happens for a username already accepted.
C6_Witness ==
    /\ last_call.op = "_handle_validation_result"
    /\ last_call.outcome = "rejected"
    /\ last_call.is_valid
    /\ last_call.username \in participants

\* C7: a result handled while the session is Stopped changes neither
\* participants nor pending, shows nothing, and leaves the session Stopped.
C7_StoppedResultIgnored ==
    [][(Resolved /\ ~running)
       => /\ participants' = participants
          /\ pending_validations' = pending_validations
          /\ username_display' = username_display
          /\ statusBar' = statusBar
          /\ Session' = "Stopped"
      ]_vars

\* C7 witness: a result with verdict true was delivered to a stopped session.
C7_Witness ==
    /\ last_call.op = "_handle_validation_result"
    /\ last_call.outcome = "discarded"
    /\ last_call.is_valid
    /\ Session = "Stopped"

C9_OneAtATime ==
    [][/\ Session = "Paused" => participants' = participants
       /\ (Session # "Paused" /\ Session' = "Paused")
            => Cardinality(participants') = Cardinality(participants) + 1
      ]_vars

\* the extractor as the specification words it: a candidate iff the
\* normalized message starts with the prefix and the rest is 2..20 long
ClaimedCandidate(message, prefix) ==
    /\ StartsWith(message, prefix)
    /\ Len(prefix) + 2 <= Len(message)
    /\ Len(message) <= Len(prefix) + 20

\* C10: a tick treats a message as a candidate iff its normalized text starts
\* with the prefix and the rest has 2..20 characters: the username a tick has
\* just dispatched comes from such a message, and every identifier in pending
\* or participants has 2..20 characters.
C10_CandidateLength ==
    /\ \A id \in participants \cup pending_validations :
        2 <= Len(id) /\ Len(id) <= 20
    /\ (last_call.op = "_poll_chat" /\ last_call.outcome = "dispatched") =>
        \A m \in Messages :
            LET message == Normalize(m)
            IN  (/\ IsCandidateMessage(message, config.cmd_prefix)
                 /\ ExtractUsername(message, config.cmd_prefix) = last_call.username)
                => ClaimedCandidate(message, config.cmd_prefix)

\* the state is the one a tick has just left by starting a validation
JustDispatched ==
    last_call.op = "_poll_chat" /\ last_call.outcome = "dispatched"

\* C11: the username a tick dispatches is the normalized message without its
\* single leading prefix: every message the tick may have read to dispatch
\* this username is the prefix followed by the username.
C11_LeadingPrefixOnly ==
    JustDispatched =>
        \A m \in ExtractMessages :
            LET message == Normalize(m)
                prefix  == PollPrefix(config)
            IN  (/\ IsCandidateMessage(message, prefix)
                 /\ ExtractUsername(message, prefix) = last_call.username)
                => message = prefix \o last_call.username

\* C12 as stated: while a session is running (or paused) the configuration
\* its ticks read does not change.
C12_ConfigFixedInSession ==
    [][running => config' = config]_vars

\* C12 amended: only _save_config changes the configuration, it does so in any
\* session state and touches nothing else of the session; a tick matches
\* against the prefix saved at the time of the tick.
C12_TickReadsSavedPrefix ==
    [][/\ config' # config => Ran("_save_config")
       /\ Ran("_save_config") =>
            /\ last_call'.outcome = "saved"
                 => config'.cmd_prefix \in { Strip(p) : p \in PrefixInputs }
            /\ UNCHANGED <<chat, running, paused, participants,
                           pending_validations, threadpool, chat_timer>>
       /\ Dispatched =>
            \E m \in Messages :
                /\ IsCandidateMessage(Normalize(m), config.cmd_prefix)
                /\ ExtractUsername(Normalize(m), config.cmd_prefix)
                     = last_call'.username
      ]_vars

\* C12 witness: a tick has dispatched a username under the prefix "!" while a
\* username dispatched under another prefix in the same session is pending.
C12_Witness ==
    /\ JustDispatched
    /\ config.cmd_prefix = <<"!">>
    /\ last_call.username = <<"a">>
    /\ \E id \in pending_validations : id # <<"a">>

\* C13: whenever the session is Stopped the chat attachment opened by
\* start_chat has been closed: self.chat is no attached LiveChat.
C13_SourceClosedWhenStopped ==
    Session = "Stopped" => chat # "LiveChat"

\* C14: whenever the session is Stopped the pending set is empty, and no
\* step taken from a Stopped session starts a validation: only a tick of a
\* running session does.
C14_StoppedNothingPending ==
    /\ [](~running => pending_validations = {})
    /\ [][/\ ~running => Len(threadpool') <= Len(threadpool)
          /\ Dispatched => running /\ running'
         ]_vars

\* C14 witness: the session was stopped while validations were in flight.
C14_Witness ==
    /\ last_call.op = "stop_chat"
    /\ Session = "Stopped"
    /\ threadpool # <<>>
    /\ stale = Len(threadpool)

\* C15: a tick that fires while the session is not Running returns at once:
\* it reads nothing from the chat, starts no validation and leaves the
\* session state, participants and pending as they are.
C15_TickSkippedUnlessRunning ==
    [][(Ran("_poll_chat") /\ Session # "Running")
       => /\ last_call'.outcome = "skipped"
          /\ UNCHANGED <<running, paused, participants, pending_validations,
                         threadpool, chat, chat_timer, statusBar,
                         username_display>>
      ]_vars

\* C15 witness: a tick has fired in a Paused session.
C15_Witness ==
    /\ last_call.op = "_poll_chat"
    /\ last_call.outcome = "skipped"
    /\ Session = "Paused"
    /\ chat_timer

\* the username the tick extracts from the raw message m
UsernameOf(m) ==
    ExtractUsername(Normalize(m), config.cmd_prefix)

\* in this state a tick takes the raw message m for a candidate
YieldsCandidate(m) ==
    IsCandidateMessage(Normalize(m), config.cmd_prefix)

\* in this state the raw message m yields a candidate in neither set
YieldsNew(m) ==
    /\ YieldsCandidate(m)
    /\ UsernameOf(m) \notin participants
    /\ UsernameOf(m) \notin pending_validations

\* C16: whatever batch a tick fetches, it starts at most one validation, for
\* the first message in delivery order that yields a candidate in neither
\* set, and none if no message does; the messages before it are skipped, the
\* ones after it are not dispatched.  A dispatching step is such a tick: it
\* adds that one username to the pool and to pending.
C16_FirstNewCandidate ==
    /\ [](\A items \in Batches :
            LET started == PollItems(items, config.cmd_prefix, TRUE, participants,
                                     pending_validations)
            IN  /\ Len(started) <= 1
                /\ started = <<>> <=> \A i \in 1..Len(items) : ~YieldsNew(items[i])
                /\ started # <<>> =>
                     \E i \in 1..Len(items) :
                        /\ YieldsNew(items[i])
                        /\ started[1] = UsernameOf(items[i])
                        /\ \A j \in 1..(i - 1) : ~YieldsNew(items[j]))
    /\ [][Dispatched =>
            /\ \E items \in Batches :
                 PollItems(items, config.cmd_prefix, running, participants,
                           pending_validations) = <<last_call'.username>>
            /\ threadpool' = Append(threadpool, last_call'.username)
            /\ pending_validations' = pending_validations \cup {last_call'.username}
         ]_vars

\* C16 witness: a tick has dispatched a username while the chat can deliver,
\* ahead of its message, a message whose candidate is already in a set.
C16_Witness ==
    /\ JustDispatched
    /\ \E m1, m2 \in Messages :
        /\ YieldsCandidate(m1)
        /\ UsernameOf(m1) # last_call.username
        /\ UsernameOf(m1) \in participants \cup pending_validations
        /\ YieldsCandidate(m2)
        /\ UsernameOf(m2) = last_call.username

\* C17: next_username takes a Paused session to Running and, in any other
\* session state, leaves the session state as it is; in both cases it leaves
\* participants and pending alone.  No other handler takes the session from
\* Paused to Running.
C17_OnlyNextResumes ==
    /\ [][Ran("next_username") =>
            /\ Session = "Paused" => Session' = "Running"
            /\ Session # "Paused" => Session' = Session
            /\ UNCHANGED <<running, participants, pending_validations>>
         ]_vars
    /\ [][(Session = "Paused" /\ Session' = "Running") => Ran("next_username")]_vars

\* C17 witness: next_username was clicked in a Paused session, which is now
\* Running.
C17_Witness ==
    /\ last_call.op = "next_username"
    /\ last_call.outcome = "paused"
    /\ Session = "Running"
    /\ participants # {}

\* C18: a tick of a running session that finds the chat ended, or whose fetch
\* or iteration raises, leaves the session Stopped with the timer stopped
\* and pending empty, and leaves participants alone.  A validation that
\* fails delivers a negative verdict, which never changes `running`.
C18_FatalTickStops ==
    /\ [][(Ran("_poll_chat") /\ last_call'.outcome \in {"ended", "error"}) =>
            /\ Session = "Running"
            /\ Session' = "Stopped"
            /\ ~chat_timer'
            /\ pending_validations' = {}
            /\ participants' = participants
         ]_vars
    /\ [][(Resolved /\ ~last_call'.is_valid) =>
            /\ running' = running
            /\ chat_timer' = chat_timer
         ]_vars

\* C18 witness: a tick has failed while a validation was in flight and a
\* participant had been accepted; the session is stopped.
C18_Witness ==
    /\ last_call.op = "_poll_chat"
    /\ last_call.outcome = "error"
    /\ threadpool # <<>>
    /\ participants # {}
    /\ Session = "Stopped"

\* C19: every identifier in pending has a validator in the pool; a validator
\* leaves the pool only by delivering its result, one per step, and the
\* delivery takes its username out of pending whatever the verdict and the
\* session state.  When validators complete fairly, every validator's
\* username is eventually delivered and every identifier in pending
\* eventually leaves pending.
C19_PendingEventuallyRemoved ==
    /\ [](pending_validations \subseteq Range(threadpool))
    /\ [][threadpool' # threadpool =>
            \/ Dispatched /\ Len(threadpool') = Len(threadpool) + 1
            \/ Resolved /\ Len(threadpool') = Len(threadpool) - 1
         ]_vars
    /\ [][Resolved => last_call'.username \notin pending_validations']_vars
    /\ \A u \in Usernames :
         (u \in Range(threadpool)) ~>
             (last_call.op = "_handle_validation_result" /\ last_call.username = u)
    /\ \A u \in Usernames :
         (u \in pending_validations) ~> (u \notin pending_validations)

\* C19 witness: a running session has received the negative result of a
\* username, which is no longer pending, while another username is still
\* pending and in flight.
C19_Witness ==
    /\ last_call.op = "_handle_validation_result"
    /\ last_call.outcome = "rejected"
    /\ ~last_call.is_valid
    /\ last_call.username \notin pending_validations
    /\ last_call.username \notin Range(threadpool)
    /\ pending_validations # {}
    /\ stale = 0

\* C20: the result of a validation that was dispatched before the latest
\* stop_chat, arriving in the running session that start_chat opened since,
\* changes nothing of that session: not participants, not paused, not the
\* usernames the window lists, not pending.
C20_StaleResultIgnored ==
    [][(Resolved /\ stale' < stale /\ running) =>
          UNCHANGED <<participants, paused, username_display,
                      pending_validations>>
      ]_vars

====
